---- MODULE Spec2Model ----
(***************************************************************************)
(* Great Lakes Ice Watch (great-lakes-ice-site/server.py): the NOAA proxy  *)
(* pipeline.  Secure fetcher (_fetch_url, _is_certificate_error), tabular  *)
(* decoder (_fetch_json, _extract_rows), history filter                    *)
(* (_trim_history_rows, _parse_time, _to_float) and the two fallback       *)
(* orchestrators (_handle_ice_latest, _handle_ice_history).                *)
(*                                                                         *)
(* Time is counted in ticks, TicksPerDay ticks to a day.  Text that the    *)
(* code parses is a sequence of tokens (Ch, Stamp); text that the code     *)
(* only copies or formats is a string.                                     *)
(*                                                                         *)
(* Spec: one worker thread handling one request after the other.           *)
(* ConcurrentSpec: two worker threads, their steps interleaved.            *)
(* CallSpec: _extract_rows and _trim_history_rows called directly on       *)
(* bounded inputs.                                                         *)
(***************************************************************************)
EXTENDS Integers, Sequences, FiniteSets, TLC

VARIABLES
    now,        \* datetime.now(timezone.utc), in ticks
    pc,         \* per worker thread: position in the request handler
    path,       \* per worker: self.path before the "?"
    query,      \* per worker: self.path after the "?", split at "&"
    days,       \* per worker: the local `days` of _handle_ice_history
    endpoints,  \* per worker: the candidate list being iterated
    idx,        \* per worker: index of the candidate of the current iteration
    errors,     \* per worker: the local list `errors`
    responses,  \* per worker: the responses written to the client socket, in order
    escaped,    \* per worker: class of the exception that left the handler
    netlog,     \* per worker: the urlopen calls made for the request, in order
    given,      \* the arguments of a direct call of the decoder and the filter
    extracted,  \* what _extract_rows(given.payload) gave, once it was called
    runs        \* the calls of _trim_history_rows made on its result, in order

\* the state of the request handlers
reqVars == <<pc, path, query, days, endpoints, idx, errors, responses, escaped, netlog>>

\* the state of the direct calls
callVars == <<given, extracted, runs>>

vars == <<now, reqVars, callVars>>

(***************************************************************************)
(* Bounds of the model                                                     *)
(***************************************************************************)
\* the clock advances at most this many ticks past StartTick
MaxTicks == 1

\* ticks in a day (the clock's resolution is half a day)
TicksPerDay == 2

\* the tick at which the server starts (noon of day 1000)
StartTick == 2001

\* worker threads of the ThreadingHTTPServer that take requests
Workers == {"w1"}

\* entries of table.rows in a directly decoded envelope, at most
MaxRows == 3

\* calls of _trim_history_rows on one decoded envelope, at most
MaxRuns == 2

(***************************************************************************)
(* Program constants                                                       *)
(***************************************************************************)
NOAA_BASE_ENDPOINT ==
    "https://apps.glerl.noaa.gov/erddap/tabledap/glerlIce.json?time,Superior,Michigan,Huron,Erie,Ontario,GL_Total"

NOAA_LATEST_ENDPOINTS ==
    << NOAA_BASE_ENDPOINT \o "&orderByMax(%22time%22)", NOAA_BASE_ENDPOINT >>

\* urlopen(request, timeout=14, ...)
FetchTimeout == 14

DefaultDays == 90
MinDays == 14
MaxDays == 365
\* timedelta(days=days + 7) in _history_endpoint
EndpointSlackDays == 7

(***************************************************************************)
(* Python exceptions: class, wrapped reason, text                          *)
(***************************************************************************)
\* the classes an exception of class c is an instance of (its MRO)
Mro(c) ==
    CASE c = "URLError"                 -> {"URLError", "OSError", "Exception"}
      [] c = "HTTPError"                -> {"HTTPError", "URLError", "OSError", "Exception"}
      [] c = "SSLError"                 -> {"SSLError", "OSError", "ValueError", "Exception"}
      [] c = "SSLCertVerificationError" -> {"SSLCertVerificationError", "SSLError", "OSError",
                                            "ValueError", "Exception"}
      [] c = "TimeoutError"             -> {"TimeoutError", "OSError", "Exception"}
      [] c = "ConnectionResetError"     -> {"ConnectionResetError", "ConnectionError", "OSError",
                                            "Exception"}
      [] c = "RuntimeError"             -> {"RuntimeError", "Exception"}
      [] c = "UnicodeDecodeError"       -> {"UnicodeDecodeError", "UnicodeError", "ValueError",
                                            "Exception"}
      [] c = "JSONDecodeError"          -> {"JSONDecodeError", "ValueError", "Exception"}
      [] c = "AttributeError"           -> {"AttributeError", "Exception"}
      [] c = "TypeError"                -> {"TypeError", "Exception"}
      [] OTHER                          -> {c}

\* isinstance(exc, (c1, c2, ...))
IsInstance(exc, classes) == Mro(exc.cls) \cap classes # {}

Exc(cls, reason, msg) == [cls |-> cls, reason |-> reason, msg |-> msg]

NoExc == Exc("none", "none", "")

\* certificate chain verification failed during the handshake; urllib wraps it
CertVerifyFailed ==
    Exc("URLError", "SSLCertVerificationError",
        "<urlopen error [SSL: CERTIFICATE_VERIFY_FAILED] certificate verify failed: unable to get local issuer certificate (_ssl.c:1006)>")

\* a TLS handshake failure that has nothing to do with the certificate chain
TlsHandshakeFailed ==
    Exc("URLError", "SSLError",
        "<urlopen error [SSL: TLSV1_ALERT_PROTOCOL_VERSION] tlsv1 alert protocol version (_ssl.c:1006)>")

DnsFailed ==
    Exc("URLError", "gaierror", "<urlopen error [Errno -2] Name or service not known>")

HttpError503 ==
    Exc("HTTPError", "str", "HTTP Error 503: Service Unavailable")

ReadTimedOut ==
    Exc("TimeoutError", "none", "The read operation timed out")

\* the peer resets the connection while the response is awaited or read:
\* getresponse() and response.read() raise it as it is, urllib wraps only the
\* failures of sending the request in URLError
ConnectionReset ==
    Exc("ConnectionResetError", "none", "[Errno 104] Connection reset by peer")


(***************************************************************************)
(* Upstream answers: what one urlopen(...) + response.read() can do        *)
(***************************************************************************)
\* response bodies the upstream may send, by name (their content: BodyOf)
Bodies ==
    {"badutf8", "badjson", "empty", "toplist", "notable", "norows",
     "old", "good", "mixed", "naive"}

Returned(status, body) == [ret |-> TRUE, status |-> status, body |-> body, exc |-> NoExc]

Raised(exc) == [ret |-> FALSE, status |-> 0, body |-> "empty", exc |-> exc]

\* a returned response: any body with 200, and the other statuses with a
\* usable or an empty body
Responses ==
    { Returned(200, b) : b \in Bodies }
      \cup { Returned(199, "good"), Returned(299, "good"), Returned(299, "empty"),
              Returned(300, "good"), Returned(503, "empty") }

\* with the verifying context every failure is possible; the unverified
\* context never fails certificate verification
UrlopenOutcomes(context) ==
    Responses
      \cup { Raised(e) : e \in {TlsHandshakeFailed, DnsFailed, HttpError503, ReadTimedOut,
                                ConnectionReset} }
      \cup (IF context = "strict" THEN {Raised(CertVerifyFailed)} ELSE {})

(***************************************************************************)
(* Secure fetcher                                                          *)
(***************************************************************************)
\* "CERTIFICATE_VERIFY_FAILED" in str(exc): only OpenSSL's verification
\* failure text carries the marker
HasVerifyMarker(exc) == exc = CertVerifyFailed

SslClasses == {"SSLError", "SSLCertVerificationError"}

\* _is_certificate_error(exc)
IsCertificateError(exc) ==
    \/ IsInstance(exc, SslClasses)
    \/ Mro(exc.reason) \cap SslClasses # {}
    \/ HasVerifyMarker(exc)

\* the except clause around the strict urlopen (line 49)
StrictExceptClasses == {"SSLError", "SSLCertVerificationError", "URLError"}

\* whether the strict attempt's exception leads to the unverified retry
RetriesInsecure(exc) ==
    /\ IsInstance(exc, StrictExceptClasses)
    /\ IsCertificateError(exc)

Ok(body) == [ok |-> TRUE, body |-> body, exc |-> NoExc]

Fail(exc) == [ok |-> FALSE, body |-> "empty", exc |-> exc]

HttpStatusMessage(status) == "HTTP " \o ToString(status)

BodyLen(body) == IF body = "empty" THEN 0 ELSE 1

\* the status check with an inclusive upper limit
CheckResponse_Upto300(status, body) ==
    IF ~(200 <= status /\ status <= 300)
      THEN Fail(Exc("RuntimeError", "none", HttpStatusMessage(status)))
    ELSE IF BodyLen(body) = 0
      THEN Fail(Exc("RuntimeError", "none", "Empty response body"))
    ELSE Ok(body)

\* lines 59-64 of _fetch_url: the checks on a returned response
CheckResponse(status, body) ==
    IF ~(200 <= status /\ status < 300)
      THEN Fail(Exc("RuntimeError", "none", HttpStatusMessage(status)))
    ELSE IF BodyLen(body) = 0
      THEN Fail(Exc("RuntimeError", "none", "Empty response body"))
    ELSE Ok(body)

\* what _fetch_url does with the outcome of an urlopen that is its last one
FetchResult(outcome) ==
    IF outcome.ret THEN CheckResponse(outcome.status, outcome.body)
                   ELSE Fail(outcome.exc)


(***************************************************************************)
(* JSON values.  Text is a sequence of tokens: a character, or one token   *)
(* "@" standing for the date-time text YYYY-MM-DDTHH:MM:SS of tick t.      *)
(***************************************************************************)
Ch(c) == [c |-> c, t |-> 0]

Stamp(t) == [c |-> "@", t |-> t]

\* a JSON value inside a row: number (in tenths), string, null, bool, array,
\* object
Num(n) == [tag |-> "num", n |-> n, text |-> <<>>]

Str(text) == [tag |-> "str", n |-> 0, text |-> text]

Null == [tag |-> "null", n |-> 0, text |-> <<>>]

Bool(b) == [tag |-> "bool", n |-> IF b THEN 1 ELSE 0, text |-> <<>>]

Arr == [tag |-> "list", n |-> 0, text |-> <<>>]

Obj == [tag |-> "dict", n |-> 0, text |-> <<>>]

\* Python's None where a dict lookup finds nothing (row.get(name))
PyNone == Null

Utc(t) == Str(<<Stamp(t), Ch("Z")>>)

Offset(t) == Str(<<Stamp(t), Ch("+00:00")>>)

Naive(t) == Str(<<Stamp(t)>>)

Digits(text) == Str([i \in 1..Len(text) |-> Ch(text[i])])

\* an entry of table.rows: a list of values, or something that is no list
Row(cells) == [isList |-> TRUE, cells |-> cells]

NotARow == [isList |-> FALSE, cells |-> <<>>]

\* the top-level JSON value: its type, whether it has a "table" object,
\* whether columnNames / rows are lists, and their entries
Envelope(top, hasTable, colsIsList, cols, rowsIsList, rows) ==
    [top |-> top, hasTable |-> hasTable, colsIsList |-> colsIsList, cols |-> cols,
     rowsIsList |-> rowsIsList, rows |-> rows]

NoEnvelope(top) == Envelope(top, FALSE, FALSE, <<>>, FALSE, <<>>)

IceColumns == <<"time", "Superior", "Michigan", "Huron", "Erie", "Ontario", "GL_Total">>

\* a row of the upstream table stamped at tick t
IceRow(timeCell) ==
    Row(<<timeCell, Num(125), Digits(<<"7", ".", "5">>), Null, Str(<<Ch("n"), Ch("/"), Ch("a")>>),
          Bool(TRUE), Num(0)>>)

\* tick of the oldest row a request of MinDays days retains at StartTick
EdgeTick == StartTick - MinDays * TicksPerDay

\* a body's bytes: whether they are UTF-8, whether the text is JSON, the value
Bytes(utf8, json, value) == [utf8 |-> utf8, json |-> json, value |-> value]

BodyOf(body) ==
    CASE body = "empty"   -> Bytes(TRUE, FALSE, NoEnvelope("none"))
      [] body = "badutf8" -> Bytes(FALSE, FALSE, NoEnvelope("none"))
      [] body = "badjson" -> Bytes(TRUE, FALSE, NoEnvelope("none"))
      [] body = "toplist" -> Bytes(TRUE, TRUE, NoEnvelope("list"))
      [] body = "notable" -> Bytes(TRUE, TRUE, NoEnvelope("dict"))
      [] body = "norows"  -> Bytes(TRUE, TRUE, Envelope("dict", TRUE, TRUE, IceColumns, TRUE, <<>>))
      [] body = "old"     -> Bytes(TRUE, TRUE,
                                   Envelope("dict", TRUE, TRUE, IceColumns, TRUE,
                                            <<IceRow(Utc(1000)), IceRow(Utc(EdgeTick - 1))>>))
      [] body = "good"    -> Bytes(TRUE, TRUE,
                                   Envelope("dict", TRUE, TRUE, IceColumns, TRUE,
                                            <<IceRow(Utc(1000)), IceRow(Utc(EdgeTick)),
                                              IceRow(Offset(StartTick + 100))>>))
      [] body = "mixed"   -> Bytes(TRUE, TRUE,
                                   Envelope("dict", TRUE, TRUE, IceColumns, TRUE,
                                            <<NotARow, IceRow(Str(<<Ch("x")>>)),
                                              Row(<<Utc(StartTick), Num(31)>>),
                                              Row(<<>>), IceRow(Utc(EdgeTick + 1))>>))
      [] body = "naive"   -> Bytes(TRUE, TRUE,
                                   Envelope("dict", TRUE, TRUE, IceColumns, TRUE,
                                            <<IceRow(Naive(StartTick))>>))


(***************************************************************************)
(* Tabular decoder                                                         *)
(***************************************************************************)
\* a value or the exception raised instead of it
Value(v) == [exc |-> NoExc, val |-> v]

Throw(exc, v) == [exc |-> exc, val |-> v]

Threw(r) == r.exc # NoExc

\* payload.decode("utf-8") and json.loads(decoded) of _fetch_json
DecodeJson(body) ==
    IF ~BodyOf(body).utf8
      THEN Throw(Exc("UnicodeDecodeError", "none",
                     "'utf-8' codec can't decode byte 0xff in position 0: invalid start byte"),
                 NoEnvelope("none"))
    ELSE IF ~BodyOf(body).json
      THEN Throw(Exc("JSONDecodeError", "none", "Expecting value: line 1 column 1 (char 0)"),
                 NoEnvelope("none"))
    ELSE Value(BodyOf(body).value)

Min(a, b) == IF a <= b THEN a ELSE b

Max(a, b) == IF a >= b THEN a ELSE b

\* a record with every column name, null where the row has no value
ZipRow_Padded(column_names, cells) ==
    [i \in 1..Len(column_names) |->
        [name |-> column_names[i], val |-> IF i <= Len(cells) THEN cells[i] ELSE Null]]

\* {name: raw_row[index] for index, name in enumerate(column_names) if index < len(raw_row)}
\* as the list of its items
ZipRow(column_names, cells) ==
    [i \in 1..Min(Len(column_names), Len(cells)) |-> [name |-> column_names[i], val |-> cells[i]]]

RECURSIVE ParsedRows(_, _)
\* the loop of _extract_rows over rows, skipping entries that are no lists
ParsedRows(column_names, rows) ==
    IF rows = <<>> THEN <<>>
    ELSE IF ~Head(rows).isList THEN ParsedRows(column_names, Tail(rows))
    ELSE <<ZipRow(column_names, Head(rows).cells)>> \o ParsedRows(column_names, Tail(rows))

\* _extract_rows(payload)
ExtractRows(payload) ==
    IF payload.top # "dict"
      THEN Throw(Exc("AttributeError", "none", "object has no attribute 'get'"), <<>>)
    ELSE IF ~payload.hasTable THEN Value(<<>>)
    ELSE IF ~payload.colsIsList \/ ~payload.rowsIsList THEN Value(<<>>)
    ELSE Value(ParsedRows(payload.cols, payload.rows))

(***************************************************************************)
(* History filter                                                          *)
(***************************************************************************)
RECURSIVE Get(_, _, _)
\* row.get(name, default): the last item of that name wins
Get(row, name, default) ==
    IF row = <<>> THEN default
    ELSE IF row[Len(row)].name = name THEN row[Len(row)].val
    ELSE Get(SubSeq(row, 1, Len(row) - 1), name, default)

\* str(value)
PyStr(v) ==
    CASE v.tag = "str"  -> v.text
      [] v.tag = "null" -> <<Ch("None")>>
      [] v.tag = "bool" -> IF v.n = 1 THEN <<Ch("True")>> ELSE <<Ch("False")>>
      [] v.tag = "list" -> <<Ch("["), Ch("]")>>
      [] v.tag = "dict" -> <<Ch("{"), Ch("}")>>
      [] v.tag = "num"  -> <<Ch(ToString(v.n \div 10)), Ch("."), Ch(ToString(v.n % 10))>>

\* value.replace("Z", "+00:00")
ReplaceZ(text) ==
    [i \in 1..Len(text) |-> IF text[i] = Ch("Z") THEN Ch("+00:00") ELSE text[i]]

\* a parsed datetime: its instant and whether it carries a UTC offset
DateTime(t, aware) == [t |-> t, aware |-> aware]

\* datetime.fromisoformat(normalized)
FromIsoFormat(text) ==
    IF Len(text) = 1 /\ text[1].c = "@"
      THEN Value(DateTime(text[1].t, FALSE))
    ELSE IF Len(text) = 2 /\ text[1].c = "@" /\ text[2] = Ch("+00:00")
      THEN Value(DateTime(text[1].t, TRUE))
    ELSE Throw(Exc("ValueError", "none", "Invalid isoformat string"), DateTime(0, FALSE))

\* _parse_time(value)
ParseTime(text) == FromIsoFormat(ReplaceZ(text))

\* a float, or None
Float(n) == [tag |-> "float", n |-> n]

None == [tag |-> "none", n |-> 0]

\* float("nan"), float("inf") and float("-inf")
NaN == [tag |-> "nan", n |-> 0]

Inf(sign) == [tag |-> "inf", n |-> sign]

DigitValue(c) ==
    CASE c = "0" -> 0 [] c = "1" -> 1 [] c = "2" -> 2 [] c = "3" -> 3 [] c = "4" -> 4
      [] c = "5" -> 5 [] c = "6" -> 6 [] c = "7" -> 7 [] c = "8" -> 8 [] c = "9" -> 9
      [] OTHER -> -1

IsDigit(c) == DigitValue(c) >= 0

RECURSIVE Strip(_)
\* text.strip()
Strip(text) ==
    IF text = <<>> THEN text
    ELSE IF Head(text) = Ch(" ") THEN Strip(Tail(text))
    ELSE IF text[Len(text)] = Ch(" ") THEN Strip(SubSeq(text, 1, Len(text) - 1))
    ELSE text

RECURSIVE DigitsValue(_)
\* the number a run of decimal digits writes
DigitsValue(text) ==
    IF text = <<>> THEN 0
    ELSE 10 * DigitsValue(SubSeq(text, 1, Len(text) - 1)) + DigitValue(text[Len(text)].c)

AllDigits(text) == \A i \in 1..Len(text) : IsDigit(text[i].c)

\* float(text) of an unsigned literal, in tenths: digits, digits "." digit,
\* or one of the words float() accepts
UnsignedFloat(text) ==
    IF text # <<>> /\ AllDigits(text) THEN Value(Float(10 * DigitsValue(text)))
    ELSE IF /\ Len(text) >= 3
            /\ text[Len(text) - 1] = Ch(".")
            /\ AllDigits(SubSeq(text, 1, Len(text) - 2))
            /\ IsDigit(text[Len(text)].c)
      THEN Value(Float(10 * DigitsValue(SubSeq(text, 1, Len(text) - 2))
                         + DigitValue(text[Len(text)].c)))
    ELSE IF Len(text) = 1 /\ text[1].c \in {"nan", "NaN"} THEN Value(NaN)
    ELSE IF Len(text) = 1 /\ text[1].c \in {"inf", "Infinity", "infinity"} THEN Value(Inf(1))
    ELSE Throw(Exc("ValueError", "none", "could not convert string to float"), None)

\* -x
Negate(f) ==
    CASE f.tag = "float" -> Float(0 - f.n)
      [] f.tag = "inf"   -> Inf(0 - f.n)
      [] OTHER           -> f

\* float(text): surrounding blanks and a sign are accepted
ParseFloat(text) ==
    LET t == Strip(text) IN
    IF t # <<>> /\ Head(t) = Ch("-")
      THEN LET u == UnsignedFloat(Tail(t)) IN IF Threw(u) THEN u ELSE Value(Negate(u.val))
    ELSE IF t # <<>> /\ Head(t) = Ch("+") THEN UnsignedFloat(Tail(t))
    ELSE UnsignedFloat(t)

\* _to_float(value)
ToFloat(v) ==
    IF v.tag = "num" THEN Float(v.n)
    ELSE IF v.tag = "bool" THEN Float(10 * v.n)
    ELSE LET f == ParseFloat(PyStr(v)) IN IF Threw(f) THEN None ELSE f.val

\* the dict appended for a retained row (lines 130-138)
HistoryPoint(row, time_text) ==
    [time |-> time_text,
     Superior |-> ToFloat(Get(row, "Superior", PyNone)),
     Michigan |-> ToFloat(Get(row, "Michigan", PyNone)),
     Huron |-> ToFloat(Get(row, "Huron", PyNone)),
     Erie |-> ToFloat(Get(row, "Erie", PyNone)),
     Ontario |-> ToFloat(Get(row, "Ontario", PyNone)),
     GL_Total |-> ToFloat(Get(row, "GL_Total", PyNone))]

\* str(row.get("time", ""))
TimeText(row) == PyStr(Get(row, "time", Str(<<>>)))

RECURSIVE TrimLoop_Break(_, _)
\* a loop that ends at the first record whose time does not parse
TrimLoop_Break(rows, cutoff) ==
    IF rows = <<>> THEN Value(<<>>)
    ELSE LET row == Head(rows)
             stamp == ParseTime(TimeText(row))
             rest == TrimLoop_Break(Tail(rows), cutoff)
         IN  IF Threw(stamp) THEN Value(<<>>)
             ELSE IF ~stamp.val.aware
               THEN Throw(Exc("TypeError", "none",
                              "can't compare offset-naive and offset-aware datetimes"), <<>>)
             ELSE IF Threw(rest) THEN rest
             ELSE IF stamp.val.t >= cutoff
               THEN Value(<<HistoryPoint(row, TimeText(row))>> \o rest.val)
             ELSE rest

RECURSIVE TrimLoop(_, _)
\* the loop of _trim_history_rows; comparing a datetime without offset with
\* the aware cutoff raises TypeError
TrimLoop(rows, cutoff) ==
    IF rows = <<>> THEN Value(<<>>)
    ELSE LET row == Head(rows)
             stamp == ParseTime(TimeText(row))
             rest == TrimLoop(Tail(rows), cutoff)
         IN  IF Threw(stamp) THEN rest
             ELSE IF ~stamp.val.aware
               THEN Throw(Exc("TypeError", "none",
                              "can't compare offset-naive and offset-aware datetimes"), <<>>)
             ELSE IF Threw(rest) THEN rest
             ELSE IF stamp.val.t >= cutoff
               THEN Value(<<HistoryPoint(row, TimeText(row))>> \o rest.val)
             ELSE rest

\* timedelta(days=n), in ticks
TimeDelta(n) == n * TicksPerDay

\* a filter whose list `trimmed` outlives the call: the points of the call
\* before are still in it
TrimHistoryRows_Accumulating(rows, d, t) ==
    LET r == IF rows = <<>> THEN Value(<<>>) ELSE TrimLoop(rows, t - TimeDelta(d))
    IN  IF Threw(r) \/ runs = <<>> THEN r
        ELSE IF Threw(runs[Len(runs)].out) THEN r
        ELSE Value(runs[Len(runs)].out.val \o r.val)

\* _trim_history_rows(rows, days) called at instant t
TrimHistoryRows(rows, d, t) ==
    IF rows = <<>> THEN Value(<<>>)
    ELSE TrimLoop(rows, t - TimeDelta(d))


(***************************************************************************)
(* Request line: self.path                                                 *)
(***************************************************************************)
\* one "&"-separated piece of the query string: name, whether an "=" follows
\* the name, and the text after the first "="
Pair(name, hasEq, text) == [name |-> name, hasEq |-> hasEq, text |-> text]

DaysPair(chars) == Pair("days", TRUE, [i \in 1..Len(chars) |-> Ch(chars[i])])

\* pair.startswith("days=")
StartsWithDays(pair) == pair.name = "days" /\ pair.hasEq

\* int(text): blanks around, a sign, decimal digits
ParseInt(text) ==
    LET t == Strip(text)
        u == IF t # <<>> /\ Head(t) \in {Ch("-"), Ch("+")} THEN Tail(t) ELSE t
    IN  IF u # <<>> /\ AllDigits(u)
          THEN Value(IF t # <<>> /\ Head(t) = Ch("-") THEN 0 - DigitsValue(u) ELSE DigitsValue(u))
        ELSE Throw(Exc("ValueError", "none", "invalid literal for int() with base 10"), 0)

RECURSIVE FirstDays(_)
\* the loop of _history_days_from_query: the first pair that starts with
\* "days=" decides, then break
FirstDays(pairs) ==
    IF pairs = <<>> THEN DefaultDays
    ELSE IF ~StartsWithDays(Head(pairs)) THEN FirstDays(Tail(pairs))
    ELSE LET n == ParseInt(Head(pairs).text) IN IF Threw(n) THEN DefaultDays ELSE n.val

\* a clamp with the two limits exchanged
ClampDays_Swapped(d) == Min(MinDays, Max(MaxDays, d))

\* max(14, min(365, days))
ClampDays(d) == Max(MinDays, Min(MaxDays, d))

\* _history_days_from_query()
HistoryDaysFromQuery(pairs) == ClampDays(FirstDays(pairs))

\* the query strings requests come with
Queries ==
    { <<>>,
      <<DaysPair(<<"1", "0">>)>>,
      <<DaysPair(<<"9", "9", "9", "9">>)>>,
      <<DaysPair(<<"-", "5">>)>>,
      <<Pair("v", TRUE, <<Ch("1")>>), DaysPair(<<"3", "6", "5">>)>>,
      <<DaysPair(<<"1", "4", ".", "5">>), DaysPair(<<"2", "0">>)>>,
      <<Pair("days", FALSE, <<>>), DaysPair(<<" ", "3", "0">>)>> }

(***************************************************************************)
(* Endpoints                                                               *)
(***************************************************************************)
\* cutoff.strftime("%Y-%m-%dT00:00:00Z"): the day of the instant, at midnight
MidnightOf(t) == (t \div TicksPerDay) * TicksPerDay

DayText(t) == "day" \o ToString(t \div TicksPerDay) \o "T00:00:00Z"

\* a lower bound with the slack on the wrong side of the window
EndpointCutoff_SlackInside(d, t) == MidnightOf(t - TimeDelta(d - EndpointSlackDays))

\* the time lower bound _history_endpoint(days) asks the upstream for, at instant t
EndpointCutoff(d, t) == MidnightOf(t - TimeDelta(d + EndpointSlackDays))

\* _history_endpoint(days) called at instant t
HistoryEndpoint(d, t) ==
    NOAA_BASE_ENDPOINT \o "&time%3E=" \o DayText(EndpointCutoff(d, t))


(***************************************************************************)
(* Fallback orchestrator                                                   *)
(***************************************************************************)
\* except (HTTPError, URLError, TimeoutError, RuntimeError, ssl.SSLError,
\*         json.JSONDecodeError) of both handlers
HandlerExceptClasses ==
    {"HTTPError", "URLError", "TimeoutError", "RuntimeError", "SSLError", "JSONDecodeError"}

HandlerCatches(exc) == IsInstance(exc, HandlerExceptClasses)

\* f"{endpoint}: {exc}"
Detail(endpoint, exc) == endpoint \o ": " \o exc.msg

\* datetime.now(timezone.utc).strftime("%Y-%m-%dT%H:%M:%SZ")
StampText(t) == <<Stamp(t), Ch("Z")>>

NoPayload == [generated_at |-> <<>>, days |-> 0, rows |-> <<>>]

\* a response on the client socket: status line, headers, body (raw upstream
\* bytes, or the JSON document dumped)
Response(status, raw, payload, error, details) ==
    [status |-> status, contentType |-> "application/json; charset=utf-8",
     cacheControl |-> "no-store", raw |-> raw, payload |-> payload,
     error |-> error, details |-> details]

\* a handler that decodes the bytes and answers with a JSON null when they
\* are no JSON
LatestResponse_Decoded(body) ==
    Response(200, IF Threw(DecodeJson(body)) THEN "null" ELSE body, NoPayload, "", <<>>)

\* lines 182-186: the upstream bytes, as they are
LatestResponse(body) == Response(200, body, NoPayload, "", <<>>)

\* lines 210-220
HistoryResponse(d, rows, t) ==
    Response(200, "", [generated_at |-> StampText(t), days |-> d, rows |-> rows], "", <<>>)

\* _send_error_json(errors)
ErrorResponse(errs) == Response(502, "", NoPayload, "Unable to fetch NOAA data.", errs)

\* a pipeline that hands an empty decoder result on to the filter
HistoryPipeline_NoRowsCheck(body, d, t) ==
    LET decoded == DecodeJson(body)
        rows == ExtractRows(decoded.val)
        trimmed == TrimHistoryRows(rows.val, d, t)
    IN  IF Threw(decoded) THEN Throw(decoded.exc, <<>>)
        ELSE IF Threw(rows) THEN Throw(rows.exc, <<>>)
        ELSE IF Threw(trimmed) THEN Throw(trimmed.exc, <<>>)
        ELSE IF trimmed.val = <<>>
          THEN Throw(Exc("RuntimeError", "none", "No rows in requested date range"), <<>>)
        ELSE Value(trimmed.val)

\* the body of the try block of _handle_ice_history after _fetch_url returned
\* `body`: the rest of _fetch_json, _extract_rows, _trim_history_rows, at instant t
HistoryPipeline(body, d, t) ==
    LET decoded == DecodeJson(body)
        rows == ExtractRows(decoded.val)
        trimmed == TrimHistoryRows(rows.val, d, t)
    IN  IF Threw(decoded) THEN Throw(decoded.exc, <<>>)
        ELSE IF Threw(rows) THEN Throw(rows.exc, <<>>)
        ELSE IF rows.val = <<>>
          THEN Throw(Exc("RuntimeError", "none", "No rows returned"), <<>>)
        ELSE IF Threw(trimmed) THEN Throw(trimmed.exc, <<>>)
        ELSE IF trimmed.val = <<>>
          THEN Throw(Exc("RuntimeError", "none", "No rows in requested date range"), <<>>)
        ELSE Value(trimmed.val)

\* a handler that goes on with the loop after the 200 response
AfterSuccess_NoReturn == "strict"

\* the position after a 200 response was written: `return`
AfterSuccess == "done"

\* a loop that runs one iteration too many
AfterFailure_OneMore(i, n) == IF i <= n THEN "strict" ELSE "send_error"

\* a fetcher that keeps the trust-everything context once it has used it:
\* the next candidate starts with it
AfterFailure_Sticky(i, n) ==
    IF i >= n THEN "send_error"
    ELSE IF \E v \in DOMAIN netlog' :
                \E j \in 1..Len(netlog'[v]) : netlog'[v][j].context = "insecure"
      THEN "insecure"
    ELSE "strict"

\* the position after a candidate's failure was recorded: the next iteration
\* of the loop, or the statement after the loop
AfterFailure(i, n) == IF i < n THEN "strict" ELSE "send_error"

Succeed(w, resp) ==
    /\ responses' = [responses EXCEPT ![w] = Append(@, resp)]
    /\ pc' = [pc EXCEPT ![w] = AfterSuccess]
    /\ UNCHANGED <<errors, idx, escaped>>

\* a list `errors` that all handlers share
Recorded_Shared(errs, w, entry) == [v \in DOMAIN errs |-> Append(errs[v], entry)]

\* errors.append(entry) on the list `errors` of the call of the handler
\* that runs for w
Recorded(errs, w, entry) == [errs EXCEPT ![w] = Append(@, entry)]

\* the instants the clock can show
Clock == StartTick..(StartTick + MaxTicks)

\* an exception raised in the try block of the loop: recorded when the
\* except clause names its class, leaving the handler when not
RaiseInLoop(w, exc) ==
    IF HandlerCatches(exc)
      THEN /\ errors' = Recorded(errors, w, Detail(endpoints[w][idx[w]], exc))
           /\ pc' = [pc EXCEPT ![w] = AfterFailure(idx[w], Len(endpoints[w]))]
           /\ idx' = [idx EXCEPT ![w] = IF @ < Len(endpoints[w]) THEN @ + 1 ELSE @]
           /\ UNCHANGED <<now, responses, escaped>>
      ELSE /\ escaped' = [escaped EXCEPT ![w] = exc.cls]
           /\ pc' = [pc EXCEPT ![w] = "crashed"]
           /\ UNCHANGED <<now, errors, idx, responses>>

\* the rest of the loop body once _fetch_url has returned or raised; the
\* history handler reads the clock for the filter (line 118) and once more
\* for generated_at (line 211)
Finish(w, fetched) ==
    IF ~fetched.ok THEN RaiseInLoop(w, fetched.exc)
    ELSE IF path[w] = "/api/ice-latest"
      THEN Succeed(w, LatestResponse(fetched.body)) /\ UNCHANGED now
    ELSE LET r == HistoryPipeline(fetched.body, days[w], now)
         IN  IF Threw(r) THEN RaiseInLoop(w, r.exc)
             ELSE \E g \in Clock :
                      /\ g >= now
                      /\ now' = g
                      /\ Succeed(w, HistoryResponse(days[w], r.val, g))

\* one urlopen(request, timeout=14, context=...) and response.read()
NetCall(url, context, outcome) ==
    [url |-> url, context |-> context, timeout |-> FetchTimeout, outcome |-> outcome]

(***************************************************************************)
(* Direct calls of the decoder and the filter                              *)
(***************************************************************************)
\* the arguments: the decoded JSON value for _extract_rows, days for
\* _trim_history_rows
Arguments(payload, d) == [payload |-> payload, days |-> d]

\* no direct call is under way
NoArguments == Arguments(NoEnvelope("none"), 0)

\* the entries table.rows is made of: no list, a row stamped at the oldest
\* instant 14 days retain at StartTick, a row of the future, a row with a
\* time that is no date, a row stamped without UTC offset, a short row with
\* an array and an object, an empty row
RowEntries ==
    { NotARow,
      IceRow(Utc(EdgeTick)),
      IceRow(Offset(StartTick + 100)),
      IceRow(Str(<<Ch("x")>>)),
      IceRow(Naive(StartTick)),
      Row(<<Utc(StartTick), Arr, Obj>>),
      Row(<<>>) }

\* table.columnNames: the seven columns of the endpoints, or the first two
ColumnLists == { IceColumns, <<"time", "Superior">> }

\* the values json.loads can hand to _extract_rows: tables of at most
\* MaxRows entries, and values without a usable table
Payloads ==
    { Envelope("dict", TRUE, TRUE, c, TRUE, r) :
        c \in ColumnLists, r \in UNION { [1..n -> RowEntries] : n \in 0..MaxRows } }
      \cup { NoEnvelope("list"), NoEnvelope("str"), NoEnvelope("null"), NoEnvelope("dict"),
              Envelope("dict", TRUE, FALSE, <<>>, TRUE, <<IceRow(Utc(StartTick))>>),
              Envelope("dict", TRUE, TRUE, IceColumns, FALSE, <<>>) }

\* the days the filter is called with
CallDays == { MinDays, MinDays + 1 }

\* rows = _extract_rows(payload)
CallExtractRows ==
    /\ given # NoArguments
    /\ extracted = <<>>
    /\ extracted' = <<ExtractRows(given.payload)>>
    /\ UNCHANGED <<now, reqVars, given, runs>>

\* trimmed = _trim_history_rows(rows, days), reading the clock
CallTrimHistoryRows ==
    /\ extracted # <<>>
    /\ ~Threw(extracted[1])
    /\ Len(runs) < MaxRuns
    /\ runs' = Append(runs, [at |-> now,
                             out |-> TrimHistoryRows(extracted[1].val, given.days, now)])
    /\ UNCHANGED <<now, reqVars, given, extracted>>

(***************************************************************************)
(* Actions                                                                 *)
(***************************************************************************)
Idle(w) ==
    /\ pc[w] = "idle"

\* do_GET up to the first urlopen of _handle_ice_latest
StartLatest(w) ==
    /\ Idle(w)
    /\ path' = [path EXCEPT ![w] = "/api/ice-latest"]
    /\ query' = [query EXCEPT ![w] = <<>>]
    /\ endpoints' = [endpoints EXCEPT ![w] = NOAA_LATEST_ENDPOINTS]
    /\ idx' = [idx EXCEPT ![w] = 1]
    /\ pc' = [pc EXCEPT ![w] = "strict"]
    /\ UNCHANGED <<now, days, errors, responses, escaped, netlog>>
    /\ UNCHANGED callVars

\* do_GET up to the first urlopen of _handle_ice_history, for a request
\* whose query string is one of `queries`
StartHistoryOf(w, queries) ==
    /\ Idle(w)
    /\ \E q \in queries :
         /\ path' = [path EXCEPT ![w] = "/api/ice-history"]
         /\ query' = [query EXCEPT ![w] = q]
         /\ days' = [days EXCEPT ![w] = HistoryDaysFromQuery(q)]
         /\ endpoints' = [endpoints EXCEPT ![w] =
                            <<HistoryEndpoint(HistoryDaysFromQuery(q), now), NOAA_BASE_ENDPOINT>>]
    /\ idx' = [idx EXCEPT ![w] = 1]
    /\ pc' = [pc EXCEPT ![w] = "strict"]
    /\ UNCHANGED <<now, errors, responses, escaped, netlog>>
    /\ UNCHANGED callVars

StartHistory(w) == StartHistoryOf(w, Queries)

\* _fetch_url lines 45-51, then the rest of the iteration unless the
\* unverified retry follows; the upstream answers with one of `outcomes`
StrictAttemptOf(w, outcomes) ==
    /\ pc[w] = "strict"
    /\ \E o \in outcomes :
         /\ netlog' = [netlog EXCEPT ![w] = Append(@, NetCall(endpoints[w][idx[w]], "strict", o))]
         /\ IF ~o.ret /\ RetriesInsecure(o.exc)
              THEN /\ pc' = [pc EXCEPT ![w] = "insecure"]
                   /\ UNCHANGED <<now, errors, idx, responses, escaped>>
              ELSE Finish(w, FetchResult(o))
    /\ UNCHANGED <<path, query, days, endpoints>>
    /\ UNCHANGED callVars

StrictAttempt(w) == StrictAttemptOf(w, UrlopenOutcomes("strict"))

\* _fetch_url lines 54-57, then the rest of the iteration
InsecureAttemptOf(w, outcomes) ==
    /\ pc[w] = "insecure"
    /\ \E o \in outcomes :
         /\ netlog' = [netlog EXCEPT ![w] = Append(@, NetCall(endpoints[w][idx[w]], "insecure", o))]
         /\ Finish(w, FetchResult(o))
    /\ UNCHANGED <<path, query, days, endpoints>>
    /\ UNCHANGED callVars

InsecureAttempt(w) == InsecureAttemptOf(w, UrlopenOutcomes("insecure"))

\* self._send_error_json(errors) after the loop
SendErrorJson(w) ==
    /\ pc[w] = "send_error"
    /\ responses' = [responses EXCEPT ![w] = Append(@, ErrorResponse(errors[w]))]
    /\ pc' = [pc EXCEPT ![w] = "done"]
    /\ UNCHANGED <<now, path, query, days, endpoints, idx, errors, escaped, netlog>>
    /\ UNCHANGED callVars

\* the handler object is dropped and the worker takes the next request
Recycle(w) ==
    /\ pc[w] \in {"done", "crashed"}
    /\ pc' = [pc EXCEPT ![w] = "idle"]
    /\ path' = [path EXCEPT ![w] = ""]
    /\ query' = [query EXCEPT ![w] = <<>>]
    /\ days' = [days EXCEPT ![w] = 0]
    /\ endpoints' = [endpoints EXCEPT ![w] = <<>>]
    /\ idx' = [idx EXCEPT ![w] = 0]
    /\ errors' = [errors EXCEPT ![w] = <<>>]
    /\ responses' = [responses EXCEPT ![w] = <<>>]
    /\ escaped' = [escaped EXCEPT ![w] = "none"]
    /\ netlog' = [netlog EXCEPT ![w] = <<>>]
    /\ UNCHANGED now
    /\ UNCHANGED callVars

\* the wall clock advances
Tick ==
    /\ now + 1 \in Clock
    /\ now' = now + 1
    /\ UNCHANGED <<pc, path, query, days, endpoints, idx, errors, responses, escaped, netlog>>
    /\ UNCHANGED callVars

Init ==
    /\ now = StartTick
    /\ pc = [w \in Workers |-> "idle"]
    /\ path = [w \in Workers |-> ""]
    /\ query = [w \in Workers |-> <<>>]
    /\ days = [w \in Workers |-> 0]
    /\ endpoints = [w \in Workers |-> <<>>]
    /\ idx = [w \in Workers |-> 0]
    /\ errors = [w \in Workers |-> <<>>]
    /\ responses = [w \in Workers |-> <<>>]
    /\ escaped = [w \in Workers |-> "none"]
    /\ netlog = [w \in Workers |-> <<>>]
    /\ given = NoArguments
    /\ extracted = <<>>
    /\ runs = <<>>

Next ==
    \/ \E w \in Workers : StartHistory(w)
    \/ \E w \in Workers : StartLatest(w)
    \/ \E w \in Workers : StrictAttempt(w)
    \/ \E w \in Workers : InsecureAttempt(w)
    \/ \E w \in Workers : SendErrorJson(w)
    \/ \E w \in Workers : Recycle(w)
    \/ Tick

Spec == Init /\ [][Next]_vars

\* Two worker threads of the ThreadingHTTPServer handle requests at the same
\* time, their steps interleaved; the upstream gives a usable table, a table
\* of old rows, a DNS failure or a certificate verification failure.
Threads == {"t1", "t2"}

ConcurrentQueries == { <<>>, <<DaysPair(<<"1", "0">>)>> }

ConcurrentOutcomes(context) ==
    { Returned(200, "good"), Returned(200, "old"), Raised(DnsFailed) }
      \cup (IF context = "strict" THEN {Raised(CertVerifyFailed)} ELSE {})

ConcurrentInit ==
    /\ now = StartTick
    /\ pc = [w \in Threads |-> "idle"]
    /\ path = [w \in Threads |-> ""]
    /\ query = [w \in Threads |-> <<>>]
    /\ days = [w \in Threads |-> 0]
    /\ endpoints = [w \in Threads |-> <<>>]
    /\ idx = [w \in Threads |-> 0]
    /\ errors = [w \in Threads |-> <<>>]
    /\ responses = [w \in Threads |-> <<>>]
    /\ escaped = [w \in Threads |-> "none"]
    /\ netlog = [w \in Threads |-> <<>>]
    /\ given = NoArguments
    /\ extracted = <<>>
    /\ runs = <<>>

ConcurrentNext ==
    \/ \E w \in Threads : StartHistoryOf(w, ConcurrentQueries)
    \/ \E w \in Threads : StartLatest(w)
    \/ \E w \in Threads : StrictAttemptOf(w, ConcurrentOutcomes("strict"))
    \/ \E w \in Threads : InsecureAttemptOf(w, ConcurrentOutcomes("insecure"))
    \/ \E w \in Threads : SendErrorJson(w)
    \/ \E w \in Threads : Recycle(w)
    \/ Tick

ConcurrentSpec == ConcurrentInit /\ [][ConcurrentNext]_vars

\* the decoder and the filter called directly, on every value of Payloads
CallInit ==
    /\ now = StartTick
    /\ pc = [w \in Workers |-> "idle"]
    /\ path = [w \in Workers |-> ""]
    /\ query = [w \in Workers |-> <<>>]
    /\ days = [w \in Workers |-> 0]
    /\ endpoints = [w \in Workers |-> <<>>]
    /\ idx = [w \in Workers |-> 0]
    /\ errors = [w \in Workers |-> <<>>]
    /\ responses = [w \in Workers |-> <<>>]
    /\ escaped = [w \in Workers |-> "none"]
    /\ netlog = [w \in Workers |-> <<>>]
    /\ given \in { Arguments(p, d) : p \in Payloads, d \in CallDays }
    /\ extracted = <<>>
    /\ runs = <<>>

CallNext ==
    \/ CallExtractRows
    \/ CallTrimHistoryRows
    \/ Tick

CallSpec == CallInit /\ [][CallNext]_vars


(***************************************************************************)
(* Properties                                                              *)
(***************************************************************************)
IsLatest(w) == pc[w] # "idle" /\ path[w] = "/api/ice-latest"

IsHistory(w) == pc[w] # "idle" /\ path[w] = "/api/ice-history"

\* the position in the candidate list of the endpoint of the i-th network call
CandidateOf(w, i) ==
    CHOOSE k \in 1..Len(endpoints[w]) : endpoints[w][k] = netlog[w][i].url

\* the network calls made for candidate k, as indices of netlog
CallsFor(w, k) == { i \in 1..Len(netlog[w]) : netlog[w][i].url = endpoints[w][k] }

LastCallFor(w, k) == netlog[w][CHOOSE i \in CallsFor(w, k) : \A j \in CallsFor(w, k) : j <= i]

\* the i-th network call gave _fetch_url its return value
FetchSucceeded(w, i) == FetchResult(netlog[w][i].outcome).ok

Sent(w, status) == \E r \in 1..Len(responses[w]) : responses[w][r].status = status

\* C1: in the latest contract the candidates are fetched in list order, the
\* ordering-modifier endpoint first and the base endpoint second; a fetch
\* that succeeds is the last network call of the request and ends it with a
\* 200 response; the second candidate is fetched only once the failure of
\* the first is on the error list.
C1_LatestInOrder ==
    \A w \in Workers : IsLatest(w) =>
        /\ endpoints[w] = <<NOAA_BASE_ENDPOINT \o "&orderByMax(%22time%22)", NOAA_BASE_ENDPOINT>>
        /\ \A i \in 1..Len(netlog[w]) :
             /\ \E k \in 1..2 : netlog[w][i].url = endpoints[w][k]
             /\ \A j \in 1..Len(netlog[w]) : i < j => CandidateOf(w, i) <= CandidateOf(w, j)
             /\ i = 1 => CandidateOf(w, i) = 1
             /\ CandidateOf(w, i) = 2 =>
                  /\ CallsFor(w, 1) # {}
                  /\ ~FetchResult(LastCallFor(w, 1).outcome).ok
                  /\ Len(errors[w]) >= 1
                  /\ errors[w][1] = endpoints[w][1] \o ": "
                                      \o FetchResult(LastCallFor(w, 1).outcome).exc.msg
             /\ FetchSucceeded(w, i) =>
                  /\ i = Len(netlog[w])
                  /\ pc[w] = "done"
                  /\ Len(responses[w]) = 1
                  /\ responses[w][1].status = 200

\* a latest request whose first candidate failed and whose second succeeded
C1_Witness ==
    \E w \in Workers :
        /\ IsLatest(w)
        /\ Len(netlog[w]) = 2
        /\ netlog[w][2].url = NOAA_BASE_ENDPOINT
        /\ Len(errors[w]) = 1
        /\ Sent(w, 200)


\* the handler of w has returned, or an exception has left it
Ended(w) == pc[w] \in {"done", "crashed"}

\* every candidate of the request was fetched at least once
AllTried(w) == \A k \in 1..Len(endpoints[w]) : CallsFor(w, k) # {}

\* the instants at which a step of a request still going on may have run
Instants == StartTick..now

\* the messages candidate k can have failed with, given its last network
\* call: the fetcher's, or (history) that of decoding and filtering its body
FailureMessages(w, k) ==
    LET fetched == FetchResult(LastCallFor(w, k).outcome) IN
    IF ~fetched.ok THEN {fetched.exc.msg}
    ELSE IF path[w] = "/api/ice-latest" THEN {}
    ELSE { HistoryPipeline(fetched.body, days[w], t).exc.msg :
             t \in { u \in Instants : Threw(HistoryPipeline(fetched.body, days[w], u)) } }

\* C2: when every candidate endpoint has failed, the response is a 502
\* ErrorReport with error "Unable to fetch NOAA data." and one detail per
\* candidate, in trial order, "<endpoint>: <failure message>".
C2_AllFailedGives502 ==
    \A w \in Workers :
        (Ended(w) /\ AllTried(w) /\ ~Sent(w, 200)) =>
            /\ Len(responses[w]) = 1
            /\ responses[w][1].status = 502
            /\ responses[w][1].error = "Unable to fetch NOAA data."
            /\ Len(responses[w][1].details) = Len(endpoints[w])
            /\ \A k \in 1..Len(endpoints[w]) :
                 \E m \in FailureMessages(w, k) :
                     responses[w][1].details[k] = endpoints[w][k] \o ": " \o m

\* the same, for the requests no exception has left
C2_AllCaughtGives502 ==
    \A w \in Workers :
        (pc[w] = "done" /\ AllTried(w) /\ ~Sent(w, 200)) =>
            /\ Len(responses[w]) = 1
            /\ responses[w][1].status = 502
            /\ responses[w][1].error = "Unable to fetch NOAA data."
            /\ Len(responses[w][1].details) = Len(endpoints[w])
            /\ \A k \in 1..Len(endpoints[w]) :
                 \E m \in FailureMessages(w, k) :
                     responses[w][1].details[k] = endpoints[w][k] \o ": " \o m

\* the classes the failures of section 7 of the design are raised as:
\* transport and certificate (URLError, TimeoutError, ConnectionResetError),
\* HTTP status (HTTPError, RuntimeError), empty body and no rows
\* (RuntimeError), JSON decoding (UnicodeDecodeError, JSONDecodeError)
ListedFailureClasses ==
    {"URLError", "TimeoutError", "ConnectionResetError", "HTTPError", "RuntimeError",
     "SSLError", "SSLCertVerificationError", "UnicodeDecodeError", "JSONDecodeError"}

\* C3: no transport, certificate, HTTP status, empty body, JSON decoding or
\* no-rows failure of a candidate leaves the request handler as an exception.
C3_ListedFailuresCaught ==
    \A w \in Workers : escaped[w] \notin ListedFailureClasses

\* C4: a request that has ended has sent exactly one response, a 200 or a
\* 502; a 200 history response has rows; a 502 comes only after every
\* candidate was tried and failed.
C4_ExactlyOneResponse ==
    \A w \in Workers :
        /\ Len(responses[w]) <= 1
        /\ Ended(w) =>
             /\ Len(responses[w]) = 1
             /\ responses[w][1].status \in {200, 502}
        /\ (IsHistory(w) /\ Sent(w, 200)) => responses[w][1].payload.rows # <<>>
        /\ Sent(w, 502) =>
             /\ AllTried(w)
             /\ Len(errors[w]) = Len(endpoints[w])

\* the same, for the requests no exception has left
C4_OneResponseUnlessCrashed ==
    \A w \in Workers :
        /\ Len(responses[w]) <= 1
        /\ pc[w] = "done" =>
             /\ Len(responses[w]) = 1
             /\ responses[w][1].status \in {200, 502}
        /\ (IsHistory(w) /\ Sent(w, 200)) => responses[w][1].payload.rows # <<>>
        /\ Sent(w, 502) =>
             /\ AllTried(w)
             /\ Len(errors[w]) = Len(endpoints[w])


\* the records the decoder yields for a body that is JSON with an object on top
DecodedRows(body) == ExtractRows(DecodeJson(body).val).val

Decodable(body) == ~Threw(DecodeJson(body)) /\ ~Threw(ExtractRows(DecodeJson(body).val))

\* the instant a history response was generated at
GeneratedAt(resp) == resp.payload.generated_at[1].t

\* C5: a history candidate goes through fetch, decode and filter in that
\* order.  Zero decoded records: it fails with "No rows returned"; records
\* but none in the window of the clamped days: it fails with "No rows in
\* requested date range"; either way the next candidate (the unfiltered base
\* endpoint after the time-filtered one) is tried.  The rows of a 200
\* response are the non-empty filter result of the decoded body of the
\* candidate fetched last.
C5_HistoryStages ==
    \A w \in Workers : IsHistory(w) =>
        /\ Len(endpoints[w]) = 2
        /\ endpoints[w][2] = NOAA_BASE_ENDPOINT
        /\ \A k \in 1..Len(errors[w]) :
             LET fetched == FetchResult(LastCallFor(w, k).outcome) IN
             (fetched.ok /\ Decodable(fetched.body)) =>
                 /\ DecodedRows(fetched.body) = <<>> =>
                      errors[w][k] = endpoints[w][k] \o ": No rows returned"
                 /\ DecodedRows(fetched.body) # <<>> =>
                      /\ errors[w][k] = endpoints[w][k] \o ": No rows in requested date range"
                      /\ \E t \in Instants :
                           TrimHistoryRows(DecodedRows(fetched.body), days[w], t) = Value(<<>>)
                 /\ k < 2 => idx[w] = k + 1
                 /\ k = 2 => pc[w] \in {"send_error", "done"}
        /\ Sent(w, 200) =>
             LET fetched == FetchResult(netlog[w][Len(netlog[w])].outcome) IN
             /\ fetched.ok
             /\ Decodable(fetched.body)
             /\ DecodedRows(fetched.body) # <<>>
             /\ responses[w][1].payload.rows # <<>>
             /\ \E t \in StartTick..GeneratedAt(responses[w][1]) :
                  responses[w][1].payload.rows =
                      TrimHistoryRows(DecodedRows(fetched.body), days[w], t).val

\* the time-filtered endpoint returned rows that are all outside the window,
\* and the base endpoint then gave the response
C5_Witness ==
    \E w \in Workers :
        /\ IsHistory(w)
        /\ Len(errors[w]) = 1
        /\ errors[w][1] = endpoints[w][1] \o ": No rows in requested date range"
        /\ netlog[w][Len(netlog[w])].url = NOAA_BASE_ENDPOINT
        /\ Sent(w, 200)

\* the integer the days parameter of each query string of Queries gives
\* (DefaultDays when it is missing or no integer)
GivenDays(q) ==
    CASE q = <<>> -> 90
      [] q = <<DaysPair(<<"1", "0">>)>> -> 10
      [] q = <<DaysPair(<<"9", "9", "9", "9">>)>> -> 9999
      [] q = <<DaysPair(<<"-", "5">>)>> -> -5
      [] q = <<Pair("v", TRUE, <<Ch("1")>>), DaysPair(<<"3", "6", "5">>)>> -> 365
      [] q = <<DaysPair(<<"1", "4", ".", "5">>), DaysPair(<<"2", "0">>)>> -> 90
      [] q = <<Pair("days", FALSE, <<>>), DaysPair(<<" ", "3", "0">>)>> -> 30

\* C6: the effective days of a history request is min(365, max(14, d)) for
\* the d of its query (90 when missing or no integer); it lies in 14..365,
\* the time-filtered endpoint is built from it, the filter window is it, and
\* HistoryResponse.days reports it.
C6_EffectiveDays ==
    \A w \in Workers : IsHistory(w) =>
        LET d == GivenDays(query[w])
            eff == IF d < 14 THEN 14 ELSE IF d > 365 THEN 365 ELSE d
        IN  /\ days[w] = eff
            /\ days[w] \in 14..365
            /\ \E t \in Instants :
                 endpoints[w][1] = NOAA_BASE_ENDPOINT \o "&time%3E=day"
                                     \o ToString((t - (eff + 7) * TicksPerDay) \div TicksPerDay)
                                     \o "T00:00:00Z"
            /\ Sent(w, 200) =>
                 /\ responses[w][1].payload.days = eff
                 /\ \E t \in StartTick..GeneratedAt(responses[w][1]) :
                      /\ responses[w][1].payload.rows =
                           TrimHistoryRows(DecodedRows(netlog[w][Len(netlog[w])].outcome.body),
                                           eff, t).val
                      /\ \A p \in 1..Len(responses[w][1].payload.rows) :
                           ParseTime(responses[w][1].payload.rows[p].time).val.t
                             >= t - eff * TicksPerDay

\* days=9999 answered with a HistoryResponse of 365 days
C6_Witness ==
    \E w \in Workers :
        /\ IsHistory(w)
        /\ query[w] = <<DaysPair(<<"9", "9", "9", "9">>)>>
        /\ days[w] = 365
        /\ Sent(w, 200)
        /\ responses[w][1].payload.days = 365

\* days=10 answered with a HistoryResponse of 14 days
C6_WitnessLow ==
    \E w \in Workers :
        /\ IsHistory(w)
        /\ query[w] = <<DaysPair(<<"1", "0">>)>>
        /\ Sent(w, 200)
        /\ responses[w][1].payload.days = 14


\* the strict attempt i failed certificate chain verification
FailedVerification(w, i) ==
    /\ netlog[w][i].context = "strict"
    /\ ~netlog[w][i].outcome.ret
    /\ \/ netlog[w][i].outcome.exc.cls = "SSLCertVerificationError"
       \/ netlog[w][i].outcome.exc.reason = "SSLCertVerificationError"

\* what follows a strict attempt i that failed verification: one unverified
\* attempt on the same endpoint and no third one; its bytes are the fetch
\* result when it succeeds, and when it fails the failure is recorded and
\* the next candidate (or the error report) follows
RetriedOnce(w, i) ==
    LET k == CandidateOf(w, i) IN
    \/ i = Len(netlog[w]) /\ pc[w] = "insecure" /\ idx[w] = k
    \/ /\ i < Len(netlog[w])
       /\ netlog[w][i + 1].context = "insecure"
       /\ netlog[w][i + 1].url = netlog[w][i].url
       /\ Cardinality(CallsFor(w, k)) = 2
       /\ LET fetched == FetchResult(netlog[w][i + 1].outcome) IN
          /\ (fetched.ok /\ path[w] = "/api/ice-latest") =>
                 /\ Sent(w, 200)
                 /\ responses[w][1].raw = netlog[w][i + 1].outcome.body
          /\ ~fetched.ok =>
                 /\ Len(errors[w]) >= k
                 /\ errors[w][k] = netlog[w][i].url \o ": " \o fetched.exc.msg
                 /\ k < Len(endpoints[w]) => idx[w] = k + 1
                 /\ k = Len(endpoints[w]) => pc[w] \in {"send_error", "done"}

\* C7: a strict attempt that fails certificate verification is followed by
\* exactly one attempt on the same endpoint with the trust-everything
\* context; if that succeeds its bytes are the result of the fetch, if it
\* fails there is no third attempt and the next candidate is tried.
C7_CertRetryOnce ==
    \A w \in Workers : pc[w] # "idle" =>
        \A i \in 1..Len(netlog[w]) : FailedVerification(w, i) => RetriedOnce(w, i)

\* the same, for the requests no exception has left
C7_CertRetryOnceUnlessCrashed ==
    \A w \in Workers : pc[w] \notin {"idle", "crashed"} =>
        \A i \in 1..Len(netlog[w]) : FailedVerification(w, i) => RetriedOnce(w, i)

\* C8: an attempt with the trust-everything context is made only right after
\* a strict attempt on the same endpoint that failed certificate chain
\* verification; no other failure is retried by the fetcher.
C8_InsecureOnlyAfterVerifyFailure ==
    \A w \in Workers : pc[w] # "idle" =>
        /\ \A i \in 1..Len(netlog[w]) :
             netlog[w][i].context = "insecure" =>
                 /\ i > 1
                 /\ netlog[w][i - 1].url = netlog[w][i].url
                 /\ FailedVerification(w, i - 1)
        /\ pc[w] = "insecure" =>
             /\ netlog[w] # <<>>
             /\ FailedVerification(w, Len(netlog[w]))

\* C9: a history request makes at most two network attempts, one per
\* candidate endpoint, each with the 14-second timeout.
C9_AtMostTwoAttempts ==
    \A w \in Workers : IsHistory(w) =>
        /\ Len(netlog[w]) <= 2
        /\ \A k \in 1..Len(endpoints[w]) : Cardinality(CallsFor(w, k)) <= 1
        /\ \A i \in 1..Len(netlog[w]) : netlog[w][i].timeout = 14

\* C9 as amended: a history request makes at most four network attempts, at
\* most two per candidate endpoint (the strict attempt and one
\* trust-everything retry), each with the 14-second timeout.
C9_AtMostFourAttempts ==
    \A w \in Workers : IsHistory(w) =>
        /\ Len(netlog[w]) <= 4
        /\ \A k \in 1..Len(endpoints[w]) : Cardinality(CallsFor(w, k)) <= 2
        /\ \A i \in 1..Len(netlog[w]) :
             /\ netlog[w][i].timeout = 14
             /\ \E k \in 1..Len(endpoints[w]) : netlog[w][i].url = endpoints[w][k]

\* a history request that needed the retry for both of its candidates
C9_Witness ==
    \E w \in Workers :
        /\ IsHistory(w)
        /\ Len(netlog[w]) = 4
        /\ Ended(w)

MalformedEnvelope(body) ==
    /\ BodyOf(body).utf8
    /\ BodyOf(body).json
    /\ \/ BodyOf(body).value.top # "dict"
       \/ ~BodyOf(body).value.hasTable
       \/ ~BodyOf(body).value.colsIsList
       \/ ~BodyOf(body).value.rowsIsList

\* the network call that ended the fetch of the candidate being processed
LastCall(w) == netlog[w][Len(netlog[w])]

\* C11: a history candidate whose fetch returned valid JSON without a usable
\* table (no table object, columnNames or rows not a list, or a top-level
\* value that is an array, a string, a number or null) decodes to no records
\* without raising: "No rows returned" is recorded for that candidate and no
\* exception leaves the handler.
C11_MalformedEnvelopeNoRows ==
    \A w \in Workers : (IsHistory(w) /\ netlog[w] # <<>>) =>
        LET fetched == FetchResult(LastCall(w).outcome)
            k == CandidateOf(w, Len(netlog[w]))
        IN  (fetched.ok /\ MalformedEnvelope(fetched.body)) =>
                /\ pc[w] # "crashed"
                /\ Len(errors[w]) >= k
                /\ errors[w][k] = endpoints[w][k] \o ": No rows returned"

\* the same, for the bodies whose top-level value is a JSON object
C11_MalformedObjectNoRows ==
    \A w \in Workers : (IsHistory(w) /\ netlog[w] # <<>>) =>
        LET fetched == FetchResult(LastCall(w).outcome)
            k == CandidateOf(w, Len(netlog[w]))
        IN  (fetched.ok /\ MalformedEnvelope(fetched.body)
               /\ BodyOf(fetched.body).value.top = "dict") =>
                /\ pc[w] # "crashed"
                /\ Len(errors[w]) >= k
                /\ errors[w][k] = endpoints[w][k] \o ": No rows returned"

\* the envelope handed to the decoder has a table whose columnNames and rows
\* are lists
WellFormed(payload) ==
    /\ payload.top = "dict"
    /\ payload.hasTable
    /\ payload.colsIsList
    /\ payload.rowsIsList

\* the positions up to p of table.rows that hold a list
ListEntries(entries, p) == { q \in 1..p : entries[q].isList }

\* C12: for a well-formed envelope the decoder yields one record per entry of
\* rows that is a list, in rows order, entries that are no lists skipped; the
\* record of row r has exactly the fields columnNames[i] -> r[i] for the
\* i up to min(len(columnNames), len(r)): a short row gives only the fields
\* it has, values beyond the last column name are ignored.
C12_OneRecordPerListRow ==
    (extracted # <<>> /\ WellFormed(given.payload)) =>
        LET cols == given.payload.cols
            entries == given.payload.rows
            out == extracted[1]
        IN  /\ ~Threw(out)
            /\ Len(out.val) = Cardinality(ListEntries(entries, Len(entries)))
            /\ \A p \in 1..Len(entries) : entries[p].isList =>
                 LET rec == out.val[Cardinality(ListEntries(entries, p))]
                     r == entries[p].cells
                 IN  /\ Len(rec) = (IF Len(cols) <= Len(r) THEN Len(cols) ELSE Len(r))
                     /\ \A i \in 1..Len(rec) : rec[i].name = cols[i] /\ rec[i].val = r[i]

\* decoded with two column names: an entry that is no list, a row of no
\* values and a row of seven values give a record of no fields and a record
\* of two fields
C12_Witness ==
    /\ extracted # <<>>
    /\ given.payload.cols = <<"time", "Superior">>
    /\ given.payload.rows = <<NotARow, Row(<<>>), IceRow(Utc(EdgeTick))>>
    /\ Len(extracted[1].val) = 2
    /\ extracted[1].val[1] = <<>>
    /\ Len(extracted[1].val[2]) = 2

\* the time field of the record is there and parses as ISO-8601
TimeParses(row) == ~Threw(ParseTime(TimeText(row)))

\* C13: the filter drops a record whose time field is missing or does not
\* parse as ISO-8601 and goes on with the records after it: what it gives
\* for a sequence of records is what it gives, at the same instant, for the
\* sequence without those records.  (Stated of the call made last: every
\* call is the last one in the state it leads to.)
C13_UnparsableDropped ==
    runs # <<>> =>
        LET records == extracted[1].val
            last == runs[Len(runs)]
        IN  /\ last.out = TrimHistoryRows(SelectSeq(records, TimeParses), given.days, last.at)
            /\ ~Threw(last.out) =>
                 \A p \in 1..Len(last.out.val) : ~Threw(ParseTime(last.out.val[p].time))

\* a record with a time that is no date and a record without time field come
\* before a record of the future: the filter gives the point of the third
C13_Witness ==
    /\ given.payload.cols = IceColumns
    /\ given.payload.rows = <<IceRow(Str(<<Ch("x")>>)), Row(<<>>), IceRow(Offset(StartTick + 100))>>
    /\ runs # <<>>
    /\ ~Threw(runs[1].out)
    /\ Len(runs[1].out.val) = 1
    /\ runs[1].out.val[1].time = <<Stamp(StartTick + 100), Ch("+00:00")>>

\* the filter's window at instant t: the instants not before t - days
InWindow(row, d, t) ==
    /\ TimeParses(row)
    /\ ParseTime(TimeText(row)).val.t >= t - d * TicksPerDay

\* what the call i of the filter should give: the records of its input, in
\* input order, whose time parses and lies in the window
Retained(i) ==
    LET Keep(row) == InWindow(row, given.days, runs[i].at)
    IN  SelectSeq(extracted[1].val, Keep)

\* the call i returned one point per retained record, in input order, each
\* with the time text of its record
ReturnedRetained(i) ==
    /\ ~Threw(runs[i].out)
    /\ Len(runs[i].out.val) = Len(Retained(i))
    /\ \A p \in 1..Len(Retained(i)) :
         /\ runs[i].out.val[p].time = TimeText(Retained(i)[p])
         /\ runs[i].out.val[p] = HistoryPoint(Retained(i)[p], TimeText(Retained(i)[p]))

\* C14: for every sequence of records and days in 14..365 the filter
\* completes and returns, in input order, exactly the records whose time
\* parses as ISO-8601 with a timestamp >= now - days (a record at the cutoff
\* and a record of the future are retained), each keeping its time text.
C14_FilterCompletesExact ==
    \A i \in 1..Len(runs) :
        /\ given.days \in MinDays..MaxDays
        /\ ReturnedRetained(i)

\* the same, for the inputs in which every time that parses carries a UTC
\* offset
C14_ExactWhenOffsetsGiven ==
    \A i \in 1..Len(runs) :
        (\A p \in 1..Len(extracted[1].val) :
            TimeParses(extracted[1].val[p]) => ParseTime(TimeText(extracted[1].val[p])).val.aware)
        => ReturnedRetained(i)

\* a record at the cutoff and a record of the future were retained, a record
\* just before the cutoff dropped
C14_EdgeRetained ==
    \E i \in 1..Len(runs) :
        /\ given.days = MinDays
        /\ given.payload.cols = IceColumns
        /\ given.payload.rows = <<IceRow(Utc(EdgeTick)), IceRow(Offset(StartTick + 100))>>
        /\ \/ runs[i].at = StartTick /\ Len(runs[i].out.val) = 2
           \/ runs[i].at = StartTick + 1 /\ Len(runs[i].out.val) = 1

NumericFields == {"Superior", "Michigan", "Huron", "Erie", "Ontario", "GL_Total"}

\* the text writes a decimal number
NumericText(text) == ~Threw(ParseFloat(text)) /\ ParseFloat(text).val.tag = "float"

\* the projected value of a raw value: the number itself, the number that
\* numeric text writes, null for everything else
Projected(v) ==
    IF v.tag = "num" THEN Float(v.n)
    ELSE IF v.tag = "str" /\ NumericText(v.text) THEN ParseFloat(v.text).val
    ELSE None

\* the same, with true and false taken as the numbers 1 and 0
ProjectedBoolAsNumber(v) ==
    IF v.tag = "bool" THEN Float(10 * v.n) ELSE Projected(v)

\* C15: each of the six numeric fields of a point is the number itself for
\* a numeric raw value, the parsed number for numeric text, and null for
\* every other raw value (missing, null, boolean, array, object, other
\* text); the point has exactly time and the six fields.
C15_FieldCoercion ==
    \A i \in 1..Len(runs) : ~Threw(runs[i].out) =>
        \A p \in 1..Len(runs[i].out.val) :
            /\ DOMAIN runs[i].out.val[p] = {"time"} \cup NumericFields
            /\ p <= Len(Retained(i))
            /\ \A f \in NumericFields :
                 runs[i].out.val[p][f] = Projected(Get(Retained(i)[p], f, Null))

\* the same, except that a boolean raw value gives 1.0 or 0.0
C15_FieldCoercionBoolAsNumber ==
    \A i \in 1..Len(runs) : ~Threw(runs[i].out) =>
        \A p \in 1..Len(runs[i].out.val) :
            /\ DOMAIN runs[i].out.val[p] = {"time"} \cup NumericFields
            /\ p <= Len(Retained(i))
            /\ \A f \in NumericFields :
                 runs[i].out.val[p][f] = ProjectedBoolAsNumber(Get(Retained(i)[p], f, Null))

\* a point made of a row with an array, an object and four missing fields
C15_NullsReached ==
    \E i \in 1..Len(runs) :
        /\ given.payload.cols = IceColumns
        /\ given.payload.rows = <<Row(<<Utc(StartTick), Arr, Obj>>)>>
        /\ ~Threw(runs[i].out)
        /\ Len(runs[i].out.val) = 1
        /\ \A f \in NumericFields : runs[i].out.val[1][f] = None

C18_LatestVerbatim ==
    \A w \in Workers : (IsLatest(w) /\ netlog[w] # <<>> /\ pc[w] # "insecure") =>
        /\ FetchResult(LastCall(w).outcome).ok =>
             /\ pc[w] = "done"
             /\ responses[w] = <<Response(200, LastCall(w).outcome.body, NoPayload, "", <<>>)>>
        /\ Sent(w, 200) =>
             /\ LastCall(w).outcome.ret
             /\ responses[w][1].raw = LastCall(w).outcome.body
             /\ \A i \in 1..(Len(netlog[w]) - 1) : ~FetchSucceeded(w, i)

\* a latest 200 response whose body is bytes that are not UTF-8, from the
\* second candidate
C18_Witness ==
    \E w \in Workers :
        /\ IsLatest(w)
        /\ Len(errors[w]) = 1
        /\ LastCall(w).outcome = Returned(200, "badutf8")
        /\ Sent(w, 200)
        /\ responses[w][1].raw = "badutf8"

\* the first candidate of the history request of w asks for the rows not
\* before midnight of day c
AsksFrom(w, c) ==
    endpoints[w][1] = NOAA_BASE_ENDPOINT \o "&time%3E=day" \o ToString(c) \o "T00:00:00Z"

\* C19: the time lower bound of the primary history endpoint, midnight of
\* the day of now - (days + 7) days at the instant the endpoint is built, is
\* not after the filter's cutoff now - days at any later instant of the
\* request; no row of a history response is older than that lower bound.
C19_EndpointBoundCoversWindow ==
    \A w \in Workers : IsHistory(w) =>
        /\ days[w] \in MinDays..MaxDays
        /\ \E t0 \in Instants :
             LET c == (t0 - (days[w] + 7) * TicksPerDay) \div TicksPerDay
             IN  /\ AsksFrom(w, c)
                 /\ \A t \in t0..now : c * TicksPerDay <= t - days[w] * TicksPerDay
                 /\ Sent(w, 200) =>
                      \A p \in 1..Len(responses[w][1].payload.rows) :
                          ParseTime(responses[w][1].payload.rows[p].time).val.t
                            >= c * TicksPerDay

\* a history request of 14 days whose endpoint was built at StartTick and
\* whose response was generated after the clock had advanced
C19_Witness ==
    \E w \in Workers :
        /\ IsHistory(w)
        /\ days[w] = MinDays
        /\ AsksFrom(w, (StartTick - (MinDays + 7) * TicksPerDay) \div TicksPerDay)
        /\ Sent(w, 200)
        /\ GeneratedAt(responses[w][1]) > StartTick

\* the first network call made for candidate k
FirstCallFor(w, k) == netlog[w][CHOOSE i \in CallsFor(w, k) : \A j \in CallsFor(w, k) : i <= j]

\* C20: the first network attempt for each candidate endpoint uses the
\* strict context, also after an earlier candidate or request fell back to
\* the trust-everything context; a trust-everything attempt comes right
\* after a failed strict attempt on the same endpoint.
C20_DowngradeNotSticky ==
    \A w \in Workers : pc[w] # "idle" =>
        /\ \A k \in 1..Len(endpoints[w]) :
             CallsFor(w, k) # {} => FirstCallFor(w, k).context = "strict"
        /\ \A i \in 1..Len(netlog[w]) :
             netlog[w][i].context = "insecure" =>
                 /\ i > 1
                 /\ netlog[w][i - 1].context = "strict"
                 /\ netlog[w][i - 1].url = netlog[w][i].url
                 /\ ~netlog[w][i - 1].outcome.ret
        /\ pc[w] = "strict" => CallsFor(w, idx[w]) = {}
        /\ pc[w] = "insecure" =>
             /\ netlog[w] # <<>>
             /\ LastCall(w).context = "strict"
             /\ LastCall(w).url = endpoints[w][idx[w]]
             /\ ~LastCall(w).outcome.ret

\* the first candidate fell back to the trust-everything context and failed;
\* the second candidate was then fetched with the strict context
C20_Witness ==
    \E w \in Workers :
        /\ pc[w] # "idle"
        /\ Len(netlog[w]) >= 3
        /\ netlog[w][2].context = "insecure"
        /\ netlog[w][2].url = endpoints[w][1]
        /\ netlog[w][3].context = "strict"
        /\ netlog[w][3].url = endpoints[w][2]

\* the fetch of candidate k of the request of w has ended: network calls
\* were made for it and no retry of it is pending
FetchEnded(w, k) ==
    /\ CallsFor(w, k) # {}
    /\ ~(pc[w] = "insecure" /\ idx[w] = k)

EndedCandidates(w) == { k \in 1..Len(endpoints[w]) : FetchEnded(w, k) }

\* what the request of w has recorded and sent follows from its own query
\* and the answers the upstream gave to its own network calls: one error
\* entry per candidate of its own that failed, in trial order, and the
\* response a handler running alone makes of them
RunsAsIfAlone(w) ==
    /\ \A i \in 1..Len(netlog[w]) :
         \E k \in 1..Len(endpoints[w]) : netlog[w][i].url = endpoints[w][k]
    /\ Len(errors[w]) = Cardinality(EndedCandidates(w))
                          - (IF Sent(w, 200) \/ pc[w] = "crashed" THEN 1 ELSE 0)
    /\ \A k \in 1..Len(errors[w]) :
         /\ FetchEnded(w, k)
         /\ \E m \in FailureMessages(w, k) : errors[w][k] = endpoints[w][k] \o ": " \o m
    /\ Len(responses[w]) <= 1
    /\ pc[w] = "done" => Len(responses[w]) = 1
    /\ Sent(w, 502) =>
         /\ responses[w][1] = Response(502, "", NoPayload, "Unable to fetch NOAA data.", errors[w])
         /\ Len(errors[w]) = Len(endpoints[w])
    /\ (Sent(w, 200) /\ IsLatest(w)) =>
         responses[w][1] = Response(200, LastCall(w).outcome.body, NoPayload, "", <<>>)
    /\ (Sent(w, 200) /\ IsHistory(w)) =>
         /\ responses[w][1].payload.days = days[w]
         /\ \E t \in StartTick..GeneratedAt(responses[w][1]) :
              responses[w][1].payload.rows =
                  TrimHistoryRows(DecodedRows(LastCall(w).outcome.body), days[w], t).val

\* C17: requests handled at the same time on separate worker threads share
\* no mutable state: under every interleaving, the error list and the
\* response of each request are those the request produces alone against
\* the same upstream answers, and no error list holds an entry of another
\* request.
C17_RequestsIndependent ==
    \A w \in Threads : pc[w] # "idle" => RunsAsIfAlone(w)

\* a history request that has recorded the failure of its first candidate
\* and is about to fetch the second, while a latest request on the other
\* thread has sent its 502 with two details
C17_Witness ==
    \E w, v \in Threads :
        /\ w # v
        /\ IsHistory(w)
        /\ pc[w] = "strict"
        /\ Len(errors[w]) = 1
        /\ IsLatest(v)
        /\ Sent(v, 502)
        /\ Len(responses[v][1].details) = 2

====
